---- MODULE Spec2Model ----
(***************************************************************************)
(* Model of ensureUpdateBranchExists / createBranchWithCleanup             *)
(* (src/action/git.js): one invocation against a remote reference client   *)
(* whose answers are arbitrary (the client is a collaborator; every        *)
(* getRef / createRef / deleteRef may resolve or reject with any status).  *)
(* Each action is the code that runs from one await to the next.           *)
(* `calls` is a history of the remote calls and timed waits issued so far. *)
(* The logger (core.info / core.warning) is not modelled; the SHA read     *)
(* from a target-ref response is used for logging only, so only the base   *)
(* read carries response data.                                             *)
(* Spec / FairSpec: one invocation, arbitrary client.                      *)
(* SequentialSpec: invocations in sequence against one reference store     *)
(* whose reads may lag behind its writes.                                  *)
(* ConcurrentSpec: several callers' invocations interleaved at their       *)
(* awaits against that store.                                              *)
(***************************************************************************)
EXTENDS Integers, Sequences, FiniteSets, TLC

(* ---------- bounds of the model ---------- *)
MaxNames == 2
MaxShas == 2
MaxCalls == 2
MaxCallers == 2

(* ---------- program constants ---------- *)
(* variant: one more creation attempt *)
MAX_CREATION_ATTEMPTS_Three == 2 + 1
MAX_CREATION_ATTEMPTS == 2
(* variant: one more verification attempt *)
MAX_VERIFICATION_ATTEMPTS_Eight == 7 + 1
MAX_VERIFICATION_ATTEMPTS == 7
VERIFICATION_BASE_DELAY_MS == 500
BRANCH_REF_PREFIX == "refs/heads/"
SHORT_REF_PREFIX == "heads/"

(* ---------- values ---------- *)
Undefined == "undefined"
OK == 200
NoStatus == 0
ErrorStatuses == {404, 422, 500}
Statuses == {OK} \cup ErrorStatuses

Names == {"branch" \o ToString(i) : i \in 1..MaxNames}
Shas == {"sha" \o ToString(i) : i \in 1..MaxShas}
ShaOpt == {Undefined} \cup Shas
Responses == [objectSha : ShaOpt, sha : ShaOpt]
NoResponse == [objectSha |-> Undefined, sha |-> Undefined]

Falsy(v) == v \in {Undefined, ""}

Pow2(n) == 2 ^ n

(* response.data.object?.sha || response.data.sha *)
resolveRefSha(response) ==
  IF ~Falsy(response.objectSha) THEN response.objectSha ELSE response.sha

branchRefOf(name) == SHORT_REF_PREFIX \o name
baseRefOf(name) == SHORT_REF_PREFIX \o name
(* variant: the short read form is passed to createRef / deleteRef *)
fullBranchRefShortForm(name) == SHORT_REF_PREFIX \o name
fullBranchRefOf(name) == BRANCH_REF_PREFIX \o name

(* ---------- errors ---------- *)
(* a rejection of the remote client: an object of its own, identified by   *)
(* the call that raised it                                                 *)
RemoteError(callIndex, status) ==
  [origin |-> "remote", id |-> callIndex, status |-> status, message |-> "remote"]
(* new Error(message): a fresh object without a status                     *)
LocalError(message) ==
  [origin |-> "local", id |-> 0, status |-> NoStatus, message |-> message]
NoError == [origin |-> "none", id |-> 0, status |-> NoStatus, message |-> ""]

NoClientError ==
  LocalError("ensureUpdateBranchExists requires an authenticated octokit client.")
NotAccessibleError(name) ==
  LocalError("Branch " \o name \o " was created but is not accessible after multiple retries")
(* variant: the exhaustion error does not name the branch *)
UnableToCreateErrorUnnamed(name) ==
  LocalError("Unable to create branch after cleaning up conflicting references.")
UnableToCreateError(name) ==
  LocalError("Unable to create branch " \o name \o " after cleaning up conflicting references.")

(* ---------- decisions of the code ---------- *)
(* variant: every failure of the existence read is taken for not-found *)
ExistsOutcomeAllMissing(status) ==
  IF status = OK THEN "return"
  ELSE "create"

(* variant: a found branch falls through to creation *)
ExistsOutcomeFallsThrough(status) ==
  IF status # OK /\ status # 404 THEN "throw"
  ELSE "create"

(* existence check, lines 32-49 *)
ExistsOutcome(status) ==
  IF status = OK THEN "return"
  ELSE IF status # 404 THEN "throw"
  ELSE "create"

(* variant: the inverted flag *)
ExistedResultFalse == FALSE

(* value returned when the branch is found at the existence check *)
ExistedResult == TRUE

(* variant: every createRef failure is taken for a conflict *)
CreateOutcomeAllConflict(status) ==
  IF status = OK THEN "created"
  ELSE "conflict"

(* createRef try/catch, lines 112-128 *)
CreateOutcome(status) ==
  IF status = OK THEN "created"
  ELSE IF status # 422 THEN "throw"
  ELSE "conflict"

(* variant: the conflicting ref is deleted even when it is readable *)
RereadOutcomeAlwaysDeletes(status) ==
  IF status = OK THEN "delete"
  ELSE IF status # 404 THEN "throw"
  ELSE "delete"

(* re-read after a conflict, lines 134-146 *)
RereadOutcome(status) ==
  IF status = OK THEN "reuse"
  ELSE IF status # 404 THEN "throw"
  ELSE "delete"

(* variant: every deleteRef failure is swallowed *)
DeleteOutcomeSwallowsAll(status) == "retry"

(* variant: only 404 is tolerated on delete *)
DeleteOutcomeOnly404(status) ==
  IF status = OK THEN "retry"
  ELSE IF status = 404 THEN "retry"
  ELSE "throw"

(* deleteRef try/catch, lines 151-167 *)
DeleteOutcome(status) ==
  IF status = OK THEN "retry"
  ELSE IF status = 404 \/ status = 422 THEN "retry"
  ELSE "throw"

(* variant: the last attempt also waits (attempt < MAX instead of MAX - 1) *)
VerifyOutcomeOffByOne(status, attempt) ==
  IF status = OK THEN "return"
  ELSE IF status = 404 /\ attempt < MAX_VERIFICATION_ATTEMPTS THEN "wait"
  ELSE "throw"

(* verification try/catch, lines 72-96 *)
VerifyOutcome(status, attempt) ==
  IF status = OK THEN "return"
  ELSE IF status = 404 /\ attempt < MAX_VERIFICATION_ATTEMPTS - 1 THEN "wait"
  ELSE "throw"

(* the error thrown by the else branch of the verification catch *)
VerifyError(error, name) == NotAccessibleError(name)

(* value returned when a verification read succeeds *)
VerifiedResult == TRUE

(* variant: linear instead of exponential backoff *)
VerificationDelayLinear(attempt) == VERIFICATION_BASE_DELAY_MS * (attempt + 1)

(* VERIFICATION_BASE_DELAY_MS * Math.pow(2, attempt) *)
VerificationDelay(attempt) == VERIFICATION_BASE_DELAY_MS * Pow2(attempt)

(* ---------- state ---------- *)
VARIABLES
  octokit,          \* TRUE when a client was passed
  branchName,
  baseBranch,
  pc,               \* position of the invocation
  base,             \* response of the base read
  baseSha,
  creationAttempt,  \* `attempt` of createBranchWithCleanup
  attempt,          \* `attempt` of the verification loop
  delay,            \* delay of the pending setTimeout
  retval,           \* <<v>> once the call returned v
  thrown,           \* the error the call rejected with
  calls,            \* history of remote calls and waits
  store,            \* the remote reference store (used by the store specifications)
  callNo,           \* ordinal of the current call of a sequence of calls
  prev,             \* how the previous call of the sequence ended
  self,             \* the caller whose invocation is running
  others            \* the invocations of the callers suspended at an await

callVars == <<octokit, branchName, baseBranch, pc, base, baseSha, creationAttempt,
              attempt, delay, retval, thrown, calls>>
envVars == <<store, callNo, prev, self, others>>
vars == <<callVars, envVars>>

Call(op, phase, ref, sha, status, ms) ==
  [op |-> op, phase |-> phase, ref |-> ref, sha |-> sha, status |-> status, delay |-> ms]

(* the remote reference store: every branch ref is absent, written but   *)
(* not yet readable (lagging), or readable (visible)                      *)
StoreKeys == {BRANCH_REF_PREFIX \o n : n \in Names}
RefStates == {"absent", "lagging", "visible"}
EmptyStore == [k \in StoreKeys |-> "absent"]
NoOutcome == [pc |-> "none", retval |-> <<>>]

(* locals of a fresh invocation *)
FreshCall ==
  /\ pc = "start"
  /\ base = NoResponse
  /\ baseSha = Undefined
  /\ creationAttempt = 0
  /\ attempt = 0
  /\ delay = 0
  /\ retval = <<>>
  /\ thrown = NoError
  /\ calls = <<>>

(* the store specifications' variables, unused with the arbitrary client *)
EnvIdle ==
  /\ store = EmptyStore
  /\ callNo = 1
  /\ prev = NoOutcome
  /\ self = 1
  /\ others = <<>>

Init ==
  /\ EnvIdle
  /\ octokit \in BOOLEAN
  /\ branchName \in Names
  /\ baseBranch \in Names
  /\ FreshCall

Return(v) ==
  /\ pc' = "returned"
  /\ retval' = <<v>>
  /\ thrown' = thrown

Throw(e) ==
  /\ pc' = "thrown"
  /\ thrown' = e
  /\ retval' = retval

Goto(p) ==
  /\ pc' = p
  /\ retval' = retval
  /\ thrown' = thrown

(* lines 22-24 *)
RejectMissingClient ==
  /\ pc = "start"
  /\ ~octokit
  /\ Throw(NoClientError)
  /\ UNCHANGED <<octokit, branchName, baseBranch, base, baseSha, creationAttempt,
                 attempt, delay, calls>>

(* lines 26-49: the existence read of heads/<branchName> *)
CheckExists ==
  /\ pc = "start"
  /\ octokit
  /\ \E status \in Statuses :
       /\ calls' = Append(calls, Call("getRef", "exists", branchRefOf(branchName), "", status, 0))
       /\ CASE ExistsOutcome(status) = "return" -> Return(ExistedResult)
            [] ExistsOutcome(status) = "throw" -> Throw(RemoteError(Len(calls) + 1, status))
            [] OTHER -> Goto("fetchBase")
  /\ UNCHANGED <<octokit, branchName, baseBranch, base, baseSha, creationAttempt,
                 attempt, delay>>

(* lines 52-68: the base read resolved; entry into createBranchWithCleanup *)
FetchBaseResolved(response) ==
  /\ calls' = Append(calls, Call("getRef", "base", baseRefOf(baseBranch), "", OK, 0))
  /\ base' = response
  /\ baseSha' = resolveRefSha(response)
  /\ creationAttempt' = 0
  /\ IF 0 < MAX_CREATION_ATTEMPTS
       THEN Goto("createRef")
       ELSE Throw(UnableToCreateError(branchName))

(* variant: the base read failure is wrapped in a new error *)
FetchBaseRejectedWrapped(status) ==
  /\ calls' = Append(calls, Call("getRef", "base", baseRefOf(baseBranch), "", status, 0))
  /\ Throw(LocalError("Unable to read base branch " \o baseBranch))
  /\ UNCHANGED <<base, baseSha, creationAttempt>>

(* lines 52-56: the base read rejected; there is no try around it *)
FetchBaseRejected(status) ==
  /\ calls' = Append(calls, Call("getRef", "base", baseRefOf(baseBranch), "", status, 0))
  /\ Throw(RemoteError(Len(calls) + 1, status))
  /\ UNCHANGED <<base, baseSha, creationAttempt>>

(* lines 51-68 *)
FetchBase ==
  /\ pc = "fetchBase"
  /\ \/ \E response \in Responses : FetchBaseResolved(response)
     \/ \E status \in ErrorStatuses : FetchBaseRejected(status)
  /\ UNCHANGED <<octokit, branchName, baseBranch, attempt, delay>>

(* variant: a conflict goes straight to the delete, without the re-read *)
CreateRefSkipsReread ==
  /\ pc = "createRef"
  /\ \E status \in Statuses :
       /\ calls' = Append(calls, Call("createRef", "create", fullBranchRefOf(branchName),
                                     baseSha, status, 0))
       /\ CASE CreateOutcome(status) = "created" -> Goto("verify")
            [] CreateOutcome(status) = "throw" -> Throw(RemoteError(Len(calls) + 1, status))
            [] OTHER -> Goto("deleteRef")
  /\ attempt' = 0
  /\ UNCHANGED <<octokit, branchName, baseBranch, base, baseSha, creationAttempt, delay>>

(* lines 111-133: one createRef attempt *)
CreateRef ==
  /\ pc = "createRef"
  /\ \E status \in Statuses :
       /\ calls' = Append(calls, Call("createRef", "create", fullBranchRefOf(branchName),
                                     baseSha, status, 0))
       /\ CASE CreateOutcome(status) = "created" -> Goto("verify")
            [] CreateOutcome(status) = "throw" -> Throw(RemoteError(Len(calls) + 1, status))
            [] OTHER -> Goto("reread")
  /\ attempt' = 0
  /\ UNCHANGED <<octokit, branchName, baseBranch, base, baseSha, creationAttempt, delay>>

(* variant: a readable conflicting ref ends the whole call, unverified *)
ConflictRereadReturns ==
  /\ pc = "reread"
  /\ \E status \in Statuses :
       /\ calls' = Append(calls, Call("getRef", "reread", branchRefOf(branchName), "", status, 0))
       /\ CASE RereadOutcome(status) = "reuse" -> Return(TRUE)
            [] RereadOutcome(status) = "throw" -> Throw(RemoteError(Len(calls) + 1, status))
            [] OTHER -> Goto("deleteRef")
  /\ attempt' = 0
  /\ UNCHANGED <<octokit, branchName, baseBranch, base, baseSha, creationAttempt, delay>>

(* lines 134-150: re-read of the target after a conflict *)
ConflictReread ==
  /\ pc = "reread"
  /\ \E status \in Statuses :
       /\ calls' = Append(calls, Call("getRef", "reread", branchRefOf(branchName), "", status, 0))
       /\ CASE RereadOutcome(status) = "reuse" -> Goto("verify")
            [] RereadOutcome(status) = "throw" -> Throw(RemoteError(Len(calls) + 1, status))
            [] OTHER -> Goto("deleteRef")
  /\ attempt' = 0
  /\ UNCHANGED <<octokit, branchName, baseBranch, base, baseSha, creationAttempt, delay>>

(* lines 151-175: delete of the stale ref, then the next loop iteration *)
DeleteRef ==
  /\ pc = "deleteRef"
  /\ \E status \in Statuses :
       /\ calls' = Append(calls, Call("deleteRef", "delete", fullBranchRefOf(branchName),
                                     "", status, 0))
       /\ IF DeleteOutcome(status) = "retry"
            THEN /\ creationAttempt' = creationAttempt + 1
                 /\ IF creationAttempt + 1 < MAX_CREATION_ATTEMPTS
                      THEN Goto("createRef")
                      ELSE Throw(UnableToCreateError(branchName))
            ELSE /\ Throw(RemoteError(Len(calls) + 1, status))
                 /\ creationAttempt' = creationAttempt
  /\ UNCHANGED <<octokit, branchName, baseBranch, base, baseSha, attempt, delay>>

(* lines 71-96: one verification read *)
VerifyRead ==
  /\ pc = "verify"
  /\ \E status \in Statuses :
       /\ calls' = Append(calls, Call("getRef", "verify", branchRefOf(branchName), "", status, 0))
       /\ CASE VerifyOutcome(status, attempt) = "return" ->
                 Return(VerifiedResult) /\ delay' = delay
            [] VerifyOutcome(status, attempt) = "wait" ->
                 Goto("wait") /\ delay' = VerificationDelay(attempt)
            [] OTHER ->
                 /\ Throw(VerifyError(RemoteError(Len(calls) + 1, status), branchName))
                 /\ delay' = delay
  /\ UNCHANGED <<octokit, branchName, baseBranch, base, baseSha, creationAttempt, attempt>>

(* lines 87, 71, 99: the timer fires, attempt++ and the loop test *)
Backoff ==
  /\ pc = "wait"
  /\ calls' = Append(calls, Call("wait", "wait", "", "", NoStatus, delay))
  /\ attempt' = attempt + 1
  /\ IF attempt + 1 < MAX_VERIFICATION_ATTEMPTS
       THEN Goto("verify")
       ELSE Return(TRUE)
  /\ UNCHANGED <<octokit, branchName, baseBranch, base, baseSha, creationAttempt, delay>>

(* the steps of one invocation; the client answers as it likes *)
Next ==
  \/ RejectMissingClient /\ UNCHANGED envVars
  \/ CheckExists /\ UNCHANGED envVars
  \/ FetchBase /\ UNCHANGED envVars
  \/ CreateRef /\ UNCHANGED envVars
  \/ ConflictReread /\ UNCHANGED envVars
  \/ DeleteRef /\ UNCHANGED envVars
  \/ VerifyRead /\ UNCHANGED envVars
  \/ Backoff /\ UNCHANGED envVars

Spec == Init /\ [][Next]_vars

(* every await settles: the client answers and the timer fires *)
FairSpec == Init /\ [][Next]_vars /\ WF_vars(Next)

(* ---------- the remote reference store ---------- *)
(* getRef takes the short form heads/<name>, createRef and deleteRef the   *)
(* fully-qualified refs/heads/<name>                                       *)
StoreKeyOf(op, ref) == IF op = "getRef" THEN "refs/" \o ref ELSE ref

(* the statuses the store may answer a call with: a written ref is         *)
(* readable only once it is visible; creating a written ref conflicts;     *)
(* deleting an absent ref fails with the missing or the conflict signal    *)
StoreAnswers(st, op, ref) ==
  LET k == StoreKeyOf(op, ref) IN
  IF k \notin StoreKeys
    THEN IF op = "getRef" THEN {404} ELSE {422}
    ELSE CASE op = "getRef" -> IF st[k] = "visible" THEN {OK} ELSE {404}
           [] op = "createRef" -> IF st[k] = "absent" THEN {OK} ELSE {422}
           [] OTHER -> IF st[k] = "absent" THEN {404, 422} ELSE {OK}

StoreAfter(st, op, ref, status) ==
  LET k == StoreKeyOf(op, ref) IN
  IF k \notin StoreKeys \/ status # OK THEN st
  ELSE CASE op = "createRef" -> [st EXCEPT ![k] = "lagging"]
         [] op = "deleteRef" -> [st EXCEPT ![k] = "absent"]
         [] OTHER -> st

(* what the store answers a successful read with *)
StoredResponse == [objectSha |-> "sha1", sha |-> Undefined]

(* a step of the invocation whose remote call, if it makes one, is         *)
(* answered by the store                                                   *)
AgainstStore(A) ==
  /\ A
  /\ IF calls' = calls
       THEN store' = store
       ELSE LET c == calls'[Len(calls')] IN
            IF c.op = "wait"
              THEN store' = store
              ELSE /\ c.status \in StoreAnswers(store, c.op, c.ref)
                   /\ (c.phase = "base" /\ c.status = OK) => base' = StoredResponse
                   /\ store' = StoreAfter(store, c.op, c.ref, c.status)
  /\ UNCHANGED <<callNo, prev, self, others>>

(* a written ref becomes readable *)
Propagate ==
  /\ \E k \in StoreKeys :
       /\ store[k] = "lagging"
       /\ store' = [store EXCEPT ![k] = "visible"]
  /\ UNCHANGED <<callVars, callNo, prev, self, others>>

(* ---------- calls in sequence against one store ---------- *)
(* the caller invokes ensureUpdateBranchExists again, with the same        *)
(* arguments, after the previous invocation has settled                    *)
CallAgain ==
  /\ pc \in {"returned", "thrown"}
  /\ callNo < MaxCalls
  /\ callNo' = callNo + 1
  /\ prev' = [pc |-> pc, retval |-> retval]
  /\ pc' = "start"
  /\ base' = NoResponse
  /\ baseSha' = Undefined
  /\ creationAttempt' = 0
  /\ attempt' = 0
  /\ delay' = 0
  /\ retval' = <<>>
  /\ thrown' = NoError
  /\ calls' = <<>>
  /\ UNCHANGED <<octokit, branchName, baseBranch, store, self, others>>

InitSequential ==
  /\ store \in [StoreKeys -> RefStates]
  /\ callNo = 1
  /\ prev = NoOutcome
  /\ self = 1
  /\ others = <<>>
  /\ octokit \in BOOLEAN
  /\ branchName \in Names
  /\ baseBranch \in Names
  /\ FreshCall

NextSequential ==
  \/ AgainstStore(RejectMissingClient)
  \/ AgainstStore(CheckExists)
  \/ AgainstStore(FetchBase)
  \/ AgainstStore(CreateRef)
  \/ AgainstStore(ConflictReread)
  \/ AgainstStore(DeleteRef)
  \/ AgainstStore(VerifyRead)
  \/ AgainstStore(Backoff)
  \/ Propagate
  \/ CallAgain

SequentialSpec == InitSequential /\ [][NextSequential]_vars

(* ---------- concurrent callers against one store ---------- *)
Callers == 1..MaxCallers

(* the locals of the running invocation *)
Snapshot ==
  [pc |-> pc, base |-> base, baseSha |-> baseSha, creationAttempt |-> creationAttempt,
   attempt |-> attempt, delay |-> delay, retval |-> retval, thrown |-> thrown,
   calls |-> calls]

NotStarted ==
  [pc |-> "start", base |-> NoResponse, baseSha |-> Undefined, creationAttempt |-> 0,
   attempt |-> 0, delay |-> 0, retval |-> <<>>, thrown |-> NoError, calls |-> <<>>]

(* placeholder in `others` for the caller that is running *)
Running == [NotStarted EXCEPT !.pc = "running"]

CallerState(c) == IF c = self THEN Snapshot ELSE others[c]

(* the running invocation is suspended at its await and caller c's resumes *)
Switch(c) ==
  /\ c # self
  /\ others[c].pc \notin {"returned", "thrown"}
  /\ self' = c
  /\ others' = [others EXCEPT ![self] = Snapshot, ![c] = Running]
  /\ pc' = others[c].pc
  /\ base' = others[c].base
  /\ baseSha' = others[c].baseSha
  /\ creationAttempt' = others[c].creationAttempt
  /\ attempt' = others[c].attempt
  /\ delay' = others[c].delay
  /\ retval' = others[c].retval
  /\ thrown' = others[c].thrown
  /\ calls' = others[c].calls
  /\ UNCHANGED <<octokit, branchName, baseBranch, store, callNo, prev>>

InitConcurrent ==
  /\ store \in [StoreKeys -> RefStates]
  /\ octokit \in BOOLEAN
  /\ branchName \in Names
  /\ baseBranch \in Names
  /\ store[BRANCH_REF_PREFIX \o branchName] = "absent"
  /\ callNo = 1
  /\ prev = NoOutcome
  /\ self = 1
  /\ others = [c \in Callers |-> IF c = 1 THEN Running ELSE NotStarted]
  /\ FreshCall

NextConcurrent ==
  \/ AgainstStore(RejectMissingClient)
  \/ AgainstStore(CheckExists)
  \/ AgainstStore(FetchBase)
  \/ AgainstStore(CreateRef)
  \/ AgainstStore(ConflictReread)
  \/ AgainstStore(DeleteRef)
  \/ AgainstStore(VerifyRead)
  \/ AgainstStore(Backoff)
  \/ Propagate
  \/ \E c \in Callers : Switch(c)

ConcurrentSpec == InitConcurrent /\ [][NextConcurrent]_vars

(* ---------- shape of the state ---------- *)
TypeOK ==
  /\ octokit \in BOOLEAN
  /\ branchName \in Names
  /\ baseBranch \in Names
  /\ pc \in {"start", "fetchBase", "createRef", "reread", "deleteRef", "verify", "wait",
             "returned", "thrown"}
  /\ base \in Responses
  /\ baseSha \in ShaOpt
  /\ creationAttempt \in 0..MAX_CREATION_ATTEMPTS
  /\ attempt \in 0..MAX_VERIFICATION_ATTEMPTS
  /\ delay \in Nat
  /\ Len(retval) \in {0, 1}

(* ---------- reading the history ---------- *)
Idx(op) == {i \in 1..Len(calls) : calls[i].op = op}
PhaseIdx(phase) == {i \in 1..Len(calls) : calls[i].phase = phase}
Count(op) == Cardinality(Idx(op))
PhaseCount(phase) == Cardinality(PhaseIdx(phase))
Done == pc \in {"returned", "thrown"}
Succeeded == pc = "returned"
Failed == pc = "thrown"
Contains(s, t) == \E i \in 1..(Len(s) - Len(t) + 1) : SubSeq(s, i, i + Len(t) - 1) = t

(* ---------- shapes of runs ---------- *)
IsCall(i, phase, status) ==
  /\ i \in 1..Len(calls)
  /\ calls[i].phase = phase
  /\ calls[i].status = status

Last == calls[Len(calls)]

(* indices of re-reads after a conflict that resolved / reported not-found *)
ReuseIdx == {i \in PhaseIdx("reread") : calls[i].status = OK}
StaleIdx == {i \in PhaseIdx("reread") : calls[i].status = 404}

(* the content hash the base response carries *)
BaseContentHash == IF base.objectSha \in Shas THEN base.objectSha ELSE base.sha

(* ---------- C1 ---------- *)
(* C1: when the first read of heads/B succeeds, the call has returned true *)
(* after exactly that one getRef call, with no createRef and no deleteRef. *)
C1_ExistingBranchIsReused ==
  (Len(calls) >= 1 /\ calls[1].status = OK) =>
     /\ calls[1].op = "getRef"
     /\ calls[1].ref = "heads/" \o branchName
     /\ Len(calls) = 1
     /\ Count("createRef") = 0
     /\ Count("deleteRef") = 0
     /\ pc = "returned"
     /\ retval = <<TRUE>>

C1_Witness ==
  /\ Len(calls) = 1
  /\ IsCall(1, "exists", OK)
  /\ pc = "returned"

(* ---------- C2 ---------- *)
(* C2: existence read 404, base read ok, createRef ok, first verification  *)
(* read ok: createRef was called exactly once, with refs/heads/B and the   *)
(* content hash of the base response, deleteRef never, and success is      *)
(* returned only after (and directly after) the successful read of heads/B.*)
C2_CleanCreation ==
  (IsCall(1, "exists", 404) /\ IsCall(2, "base", OK) /\ IsCall(3, "create", OK)) =>
     /\ calls[2].ref = "heads/" \o baseBranch
     /\ calls[3].op = "createRef"
     /\ calls[3].ref = "refs/heads/" \o branchName
     /\ calls[3].sha = BaseContentHash
     /\ Len(calls) = 3 => pc = "verify"
     /\ IsCall(4, "verify", OK) =>
          /\ Len(calls) = 4
          /\ calls[4].op = "getRef"
          /\ calls[4].ref = "heads/" \o branchName
          /\ Count("createRef") = 1
          /\ Count("deleteRef") = 0
          /\ pc = "returned"

C2_Witness ==
  /\ IsCall(1, "exists", 404)
  /\ IsCall(2, "base", OK)
  /\ IsCall(3, "create", OK)
  /\ IsCall(4, "verify", OK)
  /\ pc = "returned"
  /\ base.objectSha \in Shas

(* ---------- C3 ---------- *)
(* C3: the returned value is true if the branch existed at the existence   *)
(* check and false if it was created or reused after a conflict.           *)
C3_ReturnTellsPathsApart ==
  pc = "returned" => retval = << IsCall(1, "exists", OK) >>

(* ---------- C4 ---------- *)
(* C4 as claimed: in a finished run with a conflict re-read that succeeded *)
(* there is no deleteRef, no createRef after the re-read, and the call     *)
(* returned.                                                               *)
C4_AsClaimed ==
  (Done /\ ReuseIdx # {}) =>
     /\ Count("deleteRef") = 0
     /\ \A i \in ReuseIdx : \A j \in Idx("createRef") : j < i
     /\ pc = "returned"

(* C4 amended: after a conflict re-read that succeeded no deleteRef and no *)
(* createRef is issued and verification starts; if that conflict was the   *)
(* first createRef the call has no deleteRef at all; the call succeeds     *)
(* exactly when a verification read then succeeds.                         *)
C4_RaceReuse ==
  \A i \in ReuseIdx :
     /\ calls[i - 1].op = "createRef" /\ calls[i - 1].status = 422
     /\ \A j \in (i + 1)..Len(calls) : calls[j].op \notin {"createRef", "deleteRef"}
     /\ i = Len(calls) => pc = "verify"
     /\ i < Len(calls) => calls[i + 1].phase = "verify"
     /\ i = 4 => Count("deleteRef") = 0
     /\ Done => (pc = "returned" <=> (Last.phase = "verify" /\ Last.status = OK))

C4_Witness ==
  /\ IsCall(3, "create", 422)
  /\ IsCall(4, "reread", OK)
  /\ pc = "returned"
  /\ Count("deleteRef") = 0
  /\ Count("createRef") = 1

(* ---------- C5 ---------- *)
(* C5 as claimed: in a finished run with a conflict re-read that reported  *)
(* 404 there is exactly one deleteRef, on refs/heads/B, followed by        *)
(* exactly one createRef.                                                  *)
C5_AsClaimed ==
  (Done /\ StaleIdx # {}) =>
     /\ Count("deleteRef") = 1
     /\ \A d \in Idx("deleteRef") :
          /\ calls[d].ref = "refs/heads/" \o branchName
          /\ Cardinality({j \in Idx("createRef") : j > d}) = 1

(* C5 amended: a conflict re-read reporting 404 is directly followed by a  *)
(* deleteRef on refs/heads/B; when this happens once in the call, the call *)
(* has exactly one deleteRef, and if that delete succeeds or fails with    *)
(* 404 or 422 it is directly followed by exactly one retried createRef     *)
(* (otherwise by none).                                                    *)
C5_StaleCleanup ==
  /\ \A i \in StaleIdx :
       /\ calls[i - 1].op = "createRef" /\ calls[i - 1].status = 422
       /\ i = Len(calls) => pc = "deleteRef"
       /\ i < Len(calls) =>
            /\ calls[i + 1].op = "deleteRef"
            /\ calls[i + 1].ref = "refs/heads/" \o branchName
  /\ (Done /\ Cardinality(StaleIdx) = 1) =>
       /\ Count("deleteRef") = 1
       /\ \A d \in Idx("deleteRef") :
            IF calls[d].status \in {OK, 404, 422}
              THEN /\ d < Len(calls)
                   /\ calls[d + 1].op = "createRef"
                   /\ Cardinality({j \in Idx("createRef") : j > d}) = 1
                   /\ Count("createRef") = 2
              ELSE /\ d = Len(calls)
                   /\ Count("createRef") = 1

C5_Witness ==
  /\ IsCall(3, "create", 422)
  /\ IsCall(4, "reread", 404)
  /\ IsCall(5, "delete", 422)
  /\ IsCall(6, "create", OK)
  /\ pc = "returned"
  /\ Count("deleteRef") = 1

(* ---------- verification attempts in the history ---------- *)
(* attempt index of the verification read at history index v *)
AttemptOf(v) == Cardinality({j \in PhaseIdx("verify") : j < v})
VerifyStarted == PhaseIdx("verify") # {}
AllVerifyNotFound == \A v \in PhaseIdx("verify") : calls[v].status = 404
BackoffSchedule == <<500, 1000, 2000, 4000, 8000, 16000>>

(* ---------- C6 ---------- *)
(* C6: a finished run whose verification reads all reported not-found made *)
(* exactly 7 verification reads and 6 waits and failed with an error whose *)
(* message contains 'not accessible after multiple retries' and the branch *)
(* name; with only not-found verification reads the call never returns.    *)
C6_ExhaustionFailure ==
  (VerifyStarted /\ AllVerifyNotFound) =>
     /\ pc # "returned"
     /\ Done =>
          /\ PhaseCount("verify") = 7
          /\ Count("wait") = 6
          /\ pc = "thrown"
          /\ thrown.origin = "local"
          /\ Contains(thrown.message, "not accessible after multiple retries")
          /\ Contains(thrown.message, branchName)

C6_Witness ==
  /\ VerifyStarted
  /\ AllVerifyNotFound
  /\ PhaseCount("verify") = 7
  /\ pc = "thrown"

(* ---------- C7 ---------- *)
(* C7: the wait after the not-found verification read of attempt k (0..5)  *)
(* is 500 * 2^k; every wait directly follows such a read; attempt 0 is not *)
(* preceded by a wait and nothing follows attempt 6; not-found on attempts *)
(* 0..5 and success on attempt 6 gives success.                            *)
C7_BackoffSchedule ==
  /\ \A w \in Idx("wait") :
       /\ calls[w - 1].phase = "verify"
       /\ calls[w - 1].status = 404
       /\ AttemptOf(w - 1) \in 0..5
       /\ calls[w].delay = BackoffSchedule[AttemptOf(w - 1) + 1]
  /\ \A v \in PhaseIdx("verify") :
       /\ AttemptOf(v) \in 0..6
       /\ AttemptOf(v) = 0 => calls[v - 1].op # "wait"
       /\ AttemptOf(v) > 0 => calls[v - 1].op = "wait"
       /\ (calls[v].status = 404 /\ AttemptOf(v) <= 5) =>
            IF v = Len(calls)
              THEN pc = "wait" /\ delay = BackoffSchedule[AttemptOf(v) + 1]
              ELSE calls[v + 1].op = "wait"
       /\ AttemptOf(v) = 6 => (v = Len(calls) /\ Done)
       /\ (AttemptOf(v) = 6 /\ calls[v].status = OK) => pc = "returned"

C7_Witness ==
  /\ PhaseCount("verify") = 7
  /\ Count("wait") = 6
  /\ Last.phase = "verify"
  /\ Last.status = OK
  /\ pc = "returned"

(* ---------- C8 ---------- *)
(* C8: existence read 404 and a failed base read: the call has failed with *)
(* the error object of the base read, and the history holds those two      *)
(* reads only (no createRef, deleteRef or verification read).              *)
C8_BaseReadFailsFast ==
  (IsCall(1, "exists", 404) /\ Len(calls) >= 2 /\ calls[2].status # OK) =>
     /\ calls[2].op = "getRef"
     /\ calls[2].ref = "heads/" \o baseBranch
     /\ Len(calls) = 2
     /\ pc = "thrown"
     /\ thrown.origin = "remote"
     /\ thrown.id = 2
     /\ thrown.status = calls[2].status

C8_Witness ==
  /\ IsCall(1, "exists", 404)
  /\ IsCall(2, "base", 500)
  /\ pc = "thrown"

(* ---------- C9 ---------- *)
(* C9 as claimed: at most one createRef call and at most one deleteRef     *)
(* call, and no other mutating call.                                       *)
C9_AsClaimed ==
  /\ Count("createRef") <= 1
  /\ Count("deleteRef") <= 1
  /\ \A i \in 1..Len(calls) : calls[i].op \in {"getRef", "createRef", "deleteRef", "wait"}

(* C9 amended: at most 2 createRef calls, of which at most one succeeds,   *)
(* and at most 2 deleteRef calls; no other mutating call.                  *)
C9_BoundedMutations ==
  /\ Count("createRef") <= 2
  /\ Cardinality({i \in Idx("createRef") : calls[i].status = OK}) <= 1
  /\ Count("deleteRef") <= 2
  /\ \A i \in 1..Len(calls) : calls[i].op \in {"getRef", "createRef", "deleteRef", "wait"}

C9_Witness ==
  /\ Count("createRef") = 2
  /\ Count("deleteRef") = 2
  /\ Done

(* ---------- C10 ---------- *)
(* C10: a verification read failing with a status other than 404 ends the  *)
(* call with that same error object.                                       *)
C10_VerifyErrorPropagated ==
  (Len(calls) >= 1 /\ Last.phase = "verify" /\ Last.status \notin {OK, 404}) =>
     /\ pc = "thrown"
     /\ thrown.origin = "remote"
     /\ thrown.id = Len(calls)
     /\ thrown.status = Last.status

(* ---------- C12 ---------- *)
(* C12: against one store with no other writer, a call that follows a call *)
(* which returned success returns 'already existed' (true) after one read  *)
(* of heads/B and issues no createRef and no deleteRef; the ref is present.*)
C12_SecondCallFindsBranch ==
  (callNo >= 2 /\ prev.pc = "returned") =>
     /\ store["refs/heads/" \o branchName] = "visible"
     /\ Len(calls) <= 1
     /\ Len(calls) = 0 => pc = "start"
     /\ Len(calls) = 1 =>
          /\ calls[1].op = "getRef"
          /\ calls[1].ref = "heads/" \o branchName
          /\ calls[1].status = OK
          /\ pc = "returned"
          /\ retval = <<TRUE>>

C12_Witness ==
  /\ callNo = 2
  /\ prev.pc = "returned"
  /\ Len(calls) = 1
  /\ pc = "returned"

(* ---------- C11 ---------- *)
(* C11: with concurrent callers and lagging reads, once any caller has     *)
(* returned success the branch is present in the store.                    *)
C11_SuccessMeansPresent ==
  (\E c \in Callers : CallerState(c).pc = "returned") =>
     store["refs/heads/" \o branchName] # "absent"

(* ---------- C13 ---------- *)
(* C13: when the call has returned, the last entry of its history is a     *)
(* successful getRef of heads/B made by the existence check or by the      *)
(* verification loop (not a createRef, a conflict re-read or a wait).      *)
C13_SuccessFollowsTargetRead ==
  pc = "returned" =>
     /\ Len(calls) >= 1
     /\ Last.op = "getRef"
     /\ Last.ref = "heads/" \o branchName
     /\ Last.status = OK
     /\ Last.phase \in {"exists", "verify"}
     /\ Last.phase = "verify" => calls[Len(calls) - 1].phase \in {"create", "reread", "wait"}

C13_Witness ==
  /\ pc = "returned"
  /\ ReuseIdx # {}
  /\ Last.phase = "verify"

(* ---------- C14 ---------- *)
(* C14: every deleteRef that succeeds or fails with 404 or 422 is followed *)
(* by another createRef.                                                   *)
C14_DeleteIsFollowedByCreate ==
  \A d \in Idx("deleteRef") :
     calls[d].status \in {OK, 404, 422} =>
        IF d = Len(calls) THEN pc = "createRef" ELSE calls[d + 1].op = "createRef"

(* ---------- C15 ---------- *)
CreationAllStale ==
  /\ Idx("createRef") # {}
  /\ \A c \in Idx("createRef") : calls[c].status = 422
  /\ PhaseCount("reread") = Count("createRef")
  /\ \A r \in PhaseIdx("reread") : calls[r].status = 404

CreationExhausted ==
  /\ Count("createRef") = 2
  /\ PhaseCount("verify") = 0
  /\ pc = "thrown"
  /\ thrown.origin = "local"
  /\ thrown.message =
       "Unable to create branch " \o branchName \o " after cleaning up conflicting references."

(* C15 as claimed: a finished run in which every createRef reported 422    *)
(* and every re-read 404 made exactly 2 createRef calls, no verification   *)
(* read, and failed with the 'Unable to create branch' error.              *)
C15_AsClaimed ==
  (Done /\ CreationAllStale) => CreationExhausted

(* C15 amended: the same, provided every deleteRef succeeded or failed     *)
(* with 404 or 422.                                                        *)
C15_CreationExhaustion ==
  (Done /\ CreationAllStale /\ \A d \in Idx("deleteRef") : calls[d].status \in {OK, 404, 422})
     => CreationExhausted

C15_Witness ==
  /\ Done
  /\ CreationAllStale
  /\ Count("createRef") = 2
  /\ IsCall(5, "delete", OK)
  /\ IsCall(8, "delete", 404)

(* ---------- C16 ---------- *)
(* C16: an existence read failing with a status other than 404 ends the    *)
(* call with that same error after that one getRef.                        *)
C16_ExistenceErrorPropagates ==
  (Len(calls) >= 1 /\ calls[1].status \notin {OK, 404}) =>
     /\ calls[1].phase = "exists"
     /\ Len(calls) = 1
     /\ pc = "thrown"
     /\ thrown.origin = "remote"
     /\ thrown.id = 1
     /\ thrown.status = calls[1].status

C16_Witness ==
  /\ IsCall(1, "exists", 422)
  /\ pc = "thrown"

(* ---------- C17 ---------- *)
(* C17: a createRef failing with a status other than 422 is the last call  *)
(* of the invocation, which fails with that same error.                    *)
C17_CreateErrorPropagates ==
  \A c \in Idx("createRef") :
     calls[c].status \notin {OK, 422} =>
        /\ c = Len(calls)
        /\ pc = "thrown"
        /\ thrown.origin = "remote"
        /\ thrown.id = c
        /\ thrown.status = calls[c].status

C17_Witness ==
  /\ Count("createRef") = 2
  /\ Last.op = "createRef"
  /\ Last.status = 404
  /\ pc = "thrown"

(* ---------- C18 ---------- *)
(* C18: a deleteRef failing with 404 or 422 does not end the call with     *)
(* that error: the loop goes on as after a successful delete (to the next  *)
(* createRef, or to the loop's exhaustion); a deleteRef failing with       *)
(* another status, or a conflict re-read failing with a status other than  *)
(* 404, is the last call and the invocation fails with that same error.    *)
C18_CleanupErrors ==
  /\ \A d \in Idx("deleteRef") :
       IF calls[d].status \in {OK, 404, 422}
         THEN IF d = Len(calls)
                THEN \/ pc = "createRef"
                     \/ pc = "thrown" /\ thrown.origin = "local" /\ d = 8
                ELSE calls[d + 1].op = "createRef" /\ d = 5
         ELSE /\ d = Len(calls)
              /\ pc = "thrown"
              /\ thrown.origin = "remote"
              /\ thrown.id = d
              /\ thrown.status = calls[d].status
  /\ \A r \in PhaseIdx("reread") :
       calls[r].status \notin {OK, 404} =>
          /\ r = Len(calls)
          /\ pc = "thrown"
          /\ thrown.origin = "remote"
          /\ thrown.id = r
          /\ thrown.status = calls[r].status

C18_Witness ==
  /\ IsCall(5, "delete", 422)
  /\ IsCall(6, "create", 422)
  /\ IsCall(7, "reread", 500)
  /\ pc = "thrown"

(* ---------- C19 ---------- *)
CallBudget ==
  /\ Count("getRef") <= 11
  /\ PhaseCount("exists") <= 1
  /\ PhaseCount("base") <= 1
  /\ PhaseCount("reread") <= 2
  /\ PhaseCount("verify") <= 7
  /\ Count("createRef") <= 2
  /\ Count("deleteRef") <= 2
  /\ Count("wait") <= 6

(* C19: every invocation eventually returns or fails, and at no point has  *)
(* it made more than 11 getRef calls (1 + 1 + 2 + 7), 2 createRef calls,   *)
(* 2 deleteRef calls or 6 waits.                                           *)
C19_TerminatesWithinBudget == ([]CallBudget) /\ (<>Done)

C19_Witness ==
  /\ Done
  /\ Count("getRef") = 11
  /\ Count("createRef") = 2
  /\ Count("wait") = 6

(* ---------- C20 ---------- *)
CreationEnded(i) ==
  \/ calls[i].op = "createRef" /\ calls[i].status = OK
  \/ calls[i].phase = "reread" /\ calls[i].status = OK

====
